---- MODULE Spec2Model ----
(***************************************************************************)
(* Trading simulation engine of the exchange simulator: OrderEngine        *)
(* (src/src/trading/order_engine.py) composed with BalanceManager          *)
(* (src/src/trading/balance_manager.py).                                   *)
(*                                                                         *)
(* Numbers.  The program computes in Python floats.  The model computes in *)
(* fixed point: every price and every amount of money is an integer number *)
(* of micro-USDT (Scale units per USDT); quantities are integers.  The     *)
(* prices and quantities the model draws are chosen so that every product  *)
(* and quotient the executed code forms is exact on that grid.             *)
(***************************************************************************)
EXTENDS Integers, Sequences, FiniteSets, TLC

\* micro-USDT per USDT: the fixed-point unit standing for the float fields
Scale == 1000000

\* Optional[float] = None.  The program tests optional prices by truthiness
\* ("if position.take_profit_price:"), so None and 0.0 behave alike.
None == 0

(***************************************************************************)
(* settings.py                                                             *)
(***************************************************************************)
DEFAULT_LEVERAGE == 10
DEFAULT_BALANCE_USDT == 1000
DEFAULT_BALANCE == DEFAULT_BALANCE_USDT * Scale
\* COMMISSION_RATE = 0.0007 = COMMISSION_RATE_NUM / RATE_DEN
COMMISSION_RATE_NUM == 7
RATE_DEN == 10000
\* MIN_COMMISSION = 0.04 USDT
MIN_COMMISSION == 40000

\* SLIPPAGE_CONFIG: threshold in USDT -> slippage percentage, in 1/RATE_DEN
SLIPPAGE_CONFIG == [t \in {0, 100, 1000, 10000} |->
                      CASE t = 0 -> 1 [] t = 100 -> 5 [] t = 1000 -> 10 [] OTHER -> 20]

Max(a, b) == IF a >= b THEN a ELSE b

\* get_slippage_in that walks the thresholds from the lowest up
get_slippage_in_Ascending(unit, volume) ==
  LET reached == {t \in DOMAIN SLIPPAGE_CONFIG : volume \div unit >= t}
  IN  IF reached = {} THEN SLIPPAGE_CONFIG[0]
      ELSE SLIPPAGE_CONFIG[CHOOSE t \in reached : \A u \in reached : t <= u]

\* Settings.get_slippage for a volume counted in 1/unit USDT: the thresholds
\* are walked from the highest down and the first one that the volume
\* reaches decides; below all of them the entry of threshold 0 is returned.
\* (v >= t * unit  <=>  v \div unit >= t.)
get_slippage_in(unit, volume) ==
  LET reached == {t \in DOMAIN SLIPPAGE_CONFIG : volume \div unit >= t}
  IN  IF reached = {} THEN SLIPPAGE_CONFIG[0]
      ELSE SLIPPAGE_CONFIG[CHOOSE t \in reached : \A u \in reached : u <= t]

\* Settings.get_slippage of a volume in micro-USDT
get_slippage(volume_usdt) == get_slippage_in(Scale, volume_usdt)

(***************************************************************************)
(* BalanceManager: pricing policy                                          *)
(***************************************************************************)
\* calculate_commission without the minimum
calculate_commission_NoMinimum(order_value) ==
  (order_value \div RATE_DEN) * COMMISSION_RATE_NUM

\* max(order_value * COMMISSION_RATE, MIN_COMMISSION).  Every order value the
\* model forms is a multiple of RATE_DEN, so dividing first loses nothing and
\* keeps the product inside TLC's integers.
calculate_commission(order_value) ==
  Max((order_value \div RATE_DEN) * COMMISSION_RATE_NUM, MIN_COMMISSION)

\* calculate_slippage of a market without slippage
calculate_slippage_None(order_value, current_price) == 0

\* current_price * slippage percentage
calculate_slippage(order_value, current_price) ==
  (current_price * get_slippage(order_value)) \div RATE_DEN

(***************************************************************************)
(* models.py: Order, Position, Balance                                     *)
(***************************************************************************)
\* PositionSideOf of a one-way book: every order acts on the LONG slot
PositionSideOf_OneWay(side) == "LONG"

\* PositionSide.LONG if side == "BUY" else PositionSide.SHORT
PositionSideOf(side) == IF side = "BUY" THEN "LONG" ELSE "SHORT"

\* Order(...) as create_order builds it, with the leverage attribute added
NewOrder(id, symbol, side, order_type, quantity, price, take_profit, stop_loss, leverage) ==
  [id |-> id, symbol |-> symbol, side |-> side,
   position_side |-> PositionSideOf(side), order_type |-> order_type,
   quantity |-> quantity, price |-> price,
   executed_price |-> 0, executed_quantity |-> 0, status |-> "PENDING",
   take_profit_price |-> take_profit, stop_loss_price |-> stop_loss,
   commission |-> 0, executed_time |-> None, leverage |-> leverage]

\* Position(...) as execute_order builds it for an empty slot
NewPosition(order, executed_price, executed_quantity, required_margin) ==
  [symbol |-> order.symbol, side |-> order.position_side,
   quantity |-> executed_quantity, entry_price |-> executed_price,
   current_price |-> executed_price, unrealized_pnl |-> 0, realized_pnl |-> 0,
   leverage |-> DEFAULT_LEVERAGE, margin |-> required_margin,
   take_profit_price |-> order.take_profit_price,
   stop_loss_price |-> order.stop_loss_price]

\* position_key = f"{symbol}_{position_side}"
KeyOf(symbol, side) == <<symbol, side>>
PosKey(p) == KeyOf(p.symbol, p.side)

\* self.positions is a dict: an association list in insertion order
PosIndex(ps, key) ==
  IF \E i \in 1..Len(ps) : PosKey(ps[i]) = key
  THEN CHOOSE i \in 1..Len(ps) : PosKey(ps[i]) = key
  ELSE 0
PosKeys(ps) == {PosKey(ps[i]) : i \in 1..Len(ps)}
RemoveAt(s, i) == SubSeq(s, 1, i - 1) \o SubSeq(s, i + 1, Len(s))

\* RemoveId that removes nothing
RemoveId_Keep(s, id) == s

\* del self.orders[order.id]
RemoveId(s, id) == SelectSeq(s, LAMBDA x : x # id)
InSeq(s, x) == \E i \in 1..Len(s) : s[i] = x

(***************************************************************************)
(* The engine state e: BalanceManager.balances / positions / total_pnl and *)
(* OrderEngine.orders / order_history.  Order objects live in e.objs (the  *)
(* heap), indexed by order id; orders and order_history hold ids, so that  *)
(* a mutation of an Order object shows wherever the object is referenced.  *)
(* commission_paid is a history variable: the commissions charged so far.  *)
(***************************************************************************)
\* BalanceManager.__init__ and OrderEngine.__init__
InitEngine(initial_balance) ==
  [balances |-> [a \in {"USDT"} |->
                   [asset |-> a, free |-> initial_balance, locked |-> 0,
                    total |-> initial_balance]],
   positions |-> <<>>, total_pnl |-> 0,
   orders |-> <<>>, order_history |-> <<>>, objs |-> <<>>,
   commission_paid |-> 0]

\* usdt_balance.free -= amount; usdt_balance.total = free + locked
Debit(bal, amount) ==
  [bal EXCEPT !.free = @ - amount, !.total = (bal.free - amount) + bal.locked]

\* ReturnMargin without the recomputation of total
ReturnMargin_NoTotal(bal, margin) == [bal EXCEPT !.free = @ + margin]

\* usdt_balance.free += position.margin; usdt_balance.total = free + locked
ReturnMargin(bal, margin) ==
  [bal EXCEPT !.free = @ + margin, !.total = (bal.free + margin) + bal.locked]

\* can_place_order that lets every order pass
can_place_order_Unchecked(e, quantity, price, leverage) == TRUE

\* BalanceManager.can_place_order
can_place_order(e, quantity, price, leverage) ==
  LET lev == IF leverage # None THEN leverage ELSE DEFAULT_LEVERAGE
      order_value == quantity * price
      required_margin == order_value \div lev
      commission == calculate_commission(order_value)
      total_required == required_margin + commission
  IN  ~ (e.balances["USDT"].free < total_required)

\* the realized PnL of a closing fill
RealizedPnl(order, position, executed_price, executed_quantity) ==
  LET pnl == (executed_price - position.entry_price) * executed_quantity
  IN  IF order.position_side = "SHORT" THEN 0 - pnl ELSE pnl

\* IsClosed of a book that closes a position on every reducing fill
IsClosed_Always(quantity) == TRUE

\* IsClosed with "<" for "<="
IsClosed_Strict(quantity) == quantity < 0

\* "if position.quantity <= 0": the reduced position is closed
IsClosed(quantity) == quantity <= 0

\* BalanceManager.execute_order (it has no failing path: it returns True)
execute_order(e, id, executed_price, executed_quantity) ==
  LET order == e.objs[id]
      order_value == executed_quantity * executed_price
      commission == calculate_commission(order_value)
      \* an order without the leverage attribute uses the default
      leverage == IF order.leverage # None THEN order.leverage ELSE DEFAULT_LEVERAGE
      required_margin == order_value \div leverage
      bal1 == Debit(e.balances["USDT"], required_margin + commission)
      key == KeyOf(order.symbol, order.position_side)
      i == PosIndex(e.positions, key)
      position == e.positions[i]
      \* adding to the position
      total_quantity == position.quantity + executed_quantity
      total_value == (position.quantity * position.entry_price)
                       + (executed_quantity * executed_price)
      added == [position EXCEPT !.entry_price = total_value \div total_quantity,
                                !.quantity = total_quantity]
      \* reducing the position
      left == position.quantity - executed_quantity
      realized_pnl == RealizedPnl(order, position, executed_price, executed_quantity)
      e1 ==
        IF i # 0
        THEN IF order.side = order.position_side
             THEN [e EXCEPT !.balances["USDT"] = bal1, !.positions[i] = added]
             ELSE IF IsClosed(left)
                  THEN [e EXCEPT !.balances["USDT"] = ReturnMargin(bal1, position.margin),
                                 !.total_pnl = @ + realized_pnl,
                                 !.positions = RemoveAt(@, i)]
                  ELSE [e EXCEPT !.balances["USDT"] = bal1,
                                 !.positions[i].quantity = left]
        ELSE [e EXCEPT !.balances["USDT"] = bal1,
                       !.positions = Append(@, NewPosition(order, executed_price,
                                                executed_quantity, required_margin))]
  IN  [e1 EXCEPT !.objs[id].executed_price = executed_price,
                 !.objs[id].executed_quantity = executed_quantity,
                 !.objs[id].commission = commission,
                 !.objs[id].status = "FILLED",
                 !.objs[id].executed_time = 1,
                 !.commission_paid = @ + commission]

\* create_order with "quantity < 0" for "quantity <= 0"
create_order_ZeroQuantity(e, symbol, side, quantity, order_type, price, take_profit, stop_loss, leverage) ==
  LET lev == IF leverage # None THEN leverage ELSE DEFAULT_LEVERAGE
      execution_price == IF order_type = "MARKET" THEN 0 ELSE price
      id == Len(e.objs) + 1
      order == NewOrder(id, symbol, side, order_type, quantity, price,
                        take_profit, stop_loss, lev)
      fail(msg) == [ok |-> FALSE, msg |-> msg, id |-> 0, e |-> e]
  IN  IF side \notin {"BUY", "SELL"} THEN fail("Invalid side")
      ELSE IF order_type \notin {"MARKET", "LIMIT"} THEN fail("Invalid order type")
      ELSE IF quantity < 0 THEN fail("Invalid quantity")
      ELSE IF ~ can_place_order(e, quantity, execution_price, lev)
           THEN fail("Insufficient balance")
      ELSE [ok |-> TRUE, msg |-> "Order created successfully", id |-> id,
            e |-> [e EXCEPT !.objs = Append(@, order), !.orders = Append(@, id)]]

\* OrderEngine.create_order: (success, message, order); on success the order
\* is stored under a fresh id
create_order(e, symbol, side, quantity, order_type, price, take_profit, stop_loss, leverage) ==
  LET lev == IF leverage # None THEN leverage ELSE DEFAULT_LEVERAGE
      execution_price == IF order_type = "MARKET" THEN 0 ELSE price
      id == Len(e.objs) + 1
      order == NewOrder(id, symbol, side, order_type, quantity, price,
                        take_profit, stop_loss, lev)
      fail(msg) == [ok |-> FALSE, msg |-> msg, id |-> 0, e |-> e]
  IN  IF side \notin {"BUY", "SELL"} THEN fail("Invalid side")
      ELSE IF order_type \notin {"MARKET", "LIMIT"} THEN fail("Invalid order type")
      ELSE IF quantity <= 0 THEN fail("Invalid quantity")
      ELSE IF ~ can_place_order(e, quantity, execution_price, lev)
           THEN fail("Insufficient balance")
      ELSE [ok |-> TRUE, msg |-> "Order created successfully", id |-> id,
            e |-> [e EXCEPT !.objs = Append(@, order), !.orders = Append(@, id)]]

\* ExecutionPrice that adds the slippage whatever the side
ExecutionPrice_AlwaysAsk(side, quantity, current_price) ==
  current_price + calculate_slippage(quantity * current_price, current_price)

\* execution price with slippage: buys at the ask, sells at the bid
ExecutionPrice(side, quantity, current_price) ==
  LET order_value == quantity * current_price
      slippage == calculate_slippage(order_value, current_price)
  IN  IF side = "BUY" THEN current_price + slippage ELSE current_price - slippage

\* execute_market_order that keeps one history entry per order: an entry the
\* order already has is dropped when the order is appended
execute_market_order_Dedup(e, id, current_price, high, low) ==
  LET order == e.objs[id]
      execution_price == ExecutionPrice(order.side, order.quantity, current_price)
      e1 == execute_order(e, id, execution_price, order.quantity)
  IN  [e1 EXCEPT !.order_history = Append(RemoveId(@, id), id),
                 !.orders = RemoveId(@, id)]

\* execute_market_order that leaves the order in the open-orders map
execute_market_order_KeepOpen(e, id, current_price, high, low) ==
  LET order == e.objs[id]
      execution_price == ExecutionPrice(order.side, order.quantity, current_price)
      e1 == execute_order(e, id, execution_price, order.quantity)
  IN  [e1 EXCEPT !.order_history = Append(@, id)]

\* OrderEngine.execute_market_order (high and low are accepted and not used)
execute_market_order(e, id, current_price, high, low) ==
  LET order == e.objs[id]
      execution_price == ExecutionPrice(order.side, order.quantity, current_price)
      e1 == execute_order(e, id, execution_price, order.quantity)
  IN  [e1 EXCEPT !.order_history = Append(@, id), !.orders = RemoveId(@, id)]

\* cancel_order that moves the order without setting its status
cancel_order_KeepStatus(e, order_id) ==
  IF ~ InSeq(e.orders, order_id)
  THEN [ok |-> FALSE, msg |-> "Order not found", e |-> e]
  ELSE [ok |-> TRUE, msg |-> "Order cancelled successfully",
        e |-> [e EXCEPT !.order_history = Append(@, order_id),
                        !.orders = RemoveId(@, order_id)]]

\* cancel_order that looks the id up among all the orders ever created
cancel_order_AnyKnown(e, order_id) ==
  IF order_id \notin 1..Len(e.objs)
  THEN [ok |-> FALSE, msg |-> "Order not found", e |-> e]
  ELSE [ok |-> TRUE, msg |-> "Order cancelled successfully",
        e |-> [e EXCEPT !.objs[order_id].status = "CANCELLED",
                        !.order_history = Append(@, order_id),
                        !.orders = RemoveId(@, order_id)]]

\* OrderEngine.cancel_order
cancel_order(e, order_id) ==
  IF ~ InSeq(e.orders, order_id)
  THEN [ok |-> FALSE, msg |-> "Order not found", e |-> e]
  ELSE [ok |-> TRUE, msg |-> "Order cancelled successfully",
        e |-> [e EXCEPT !.objs[order_id].status = "CANCELLED",
                        !.order_history = Append(@, order_id),
                        !.orders = RemoveId(@, order_id)]]

\* UnrealizedPnl that takes every position for a LONG
UnrealizedPnl_LongOnly(p, current_price) == (current_price - p.entry_price) * p.quantity

\* unrealized PnL of a position marked at current_price
UnrealizedPnl(p, current_price) ==
  IF p.side = "LONG" THEN (current_price - p.entry_price) * p.quantity
  ELSE (p.entry_price - current_price) * p.quantity

\* BalanceManager.update_position_prices
update_position_prices_AllSymbols(e, symbol, current_price) ==
  [e EXCEPT !.positions =
     [i \in 1..Len(e.positions) |->
        [e.positions[i] EXCEPT !.current_price = current_price,
                               !.unrealized_pnl = UnrealizedPnl(e.positions[i], current_price)]]]

update_position_prices(e, symbol, current_price) ==
  [e EXCEPT !.positions =
     [i \in 1..Len(e.positions) |->
        IF e.positions[i].symbol = symbol
        THEN [e.positions[i] EXCEPT !.current_price = current_price,
                                    !.unrealized_pnl = UnrealizedPnl(e.positions[i], current_price)]
        ELSE e.positions[i]]]

\* TriggersOf with a tie-break: the stop-loss is looked at only when the
\* take-profit is not met
TriggersOf_Exclusive(p, high, low) ==
  IF p.take_profit_price # None
     /\ ((p.side = "LONG" /\ high >= p.take_profit_price)
         \/ (p.side = "SHORT" /\ low <= p.take_profit_price))
  THEN <<[key |-> PosKey(p), kind |-> "TP", price |-> p.take_profit_price]>>
  ELSE IF p.stop_loss_price # None
          /\ ((p.side = "LONG" /\ low <= p.stop_loss_price)
              \/ (p.side = "SHORT" /\ high >= p.stop_loss_price))
       THEN <<[key |-> PosKey(p), kind |-> "SL", price |-> p.stop_loss_price]>>
       ELSE <<>>

\* the entries _check_tp_sl_improved appends for one position: TP first, then SL
TriggersOf(p, high, low) ==
  LET tp == IF p.take_profit_price # None
               /\ ((p.side = "LONG" /\ high >= p.take_profit_price)
                   \/ (p.side = "SHORT" /\ low <= p.take_profit_price))
            THEN <<[key |-> PosKey(p), kind |-> "TP", price |-> p.take_profit_price]>>
            ELSE <<>>
      sl == IF p.stop_loss_price # None
               /\ ((p.side = "LONG" /\ low <= p.stop_loss_price)
                   \/ (p.side = "SHORT" /\ high >= p.stop_loss_price))
            THEN <<[key |-> PosKey(p), kind |-> "SL", price |-> p.stop_loss_price]>>
            ELSE <<>>
  IN  tp \o sl

RECURSIVE CheckFrom(_, _, _, _, _)
CheckFrom(ps, i, symbol, high, low) ==
  IF i > Len(ps) THEN <<>>
  ELSE (IF ps[i].symbol = symbol THEN TriggersOf(ps[i], high, low) ELSE <<>>)
       \o CheckFrom(ps, i + 1, symbol, high, low)

\* OrderEngine._check_tp_sl_improved: (position, trigger_type, trigger_price)
\* in the iteration order of the positions dict; the position is a reference
\* to the Position object, named here by its key
_check_tp_sl_improved(e, symbol, high, low) == CheckFrom(e.positions, 1, symbol, high, low)

\* position.quantity read through the reference a trigger entry holds.  The
\* Position object stays in the dict until an execution deletes it; from then
\* on the entry still refers to the deleted object (gone[key] is the quantity
\* it was left with), whatever the dict holds under that key afterwards.
QuantityOf(e, gone, key) ==
  IF key \in DOMAIN gone THEN gone[key]
  ELSE e.positions[PosIndex(e.positions, key)].quantity

\* closing_side = "SELL" if position.side.value == "LONG" else "BUY"
ClosingSide(position_side) == IF position_side = "LONG" THEN "SELL" ELSE "BUY"

\* ClosingPrice with the candle's close for the trigger price
ClosingPrice_AtClose(trigger, close) == close

\* the market price handed to execute_market_order for a triggered position
ClosingPrice(trigger, close) == trigger.price

\* one pass of "for position, trigger_type, trigger_price in positions_to_close".
\* r = [e, held, gone, closings]: held are the keys of the Position objects
\* the scan started with, gone the ones of them deleted since, closings[n] the
\* id of the closing order of entry n, or 0 when create_order refused it
RECURSIVE CloseTriggered(_, _, _, _, _, _, _)
CloseTriggered(r, triggers, n, symbol, high, low, close) ==
  IF n > Len(triggers) THEN r
  ELSE
    LET t == triggers[n]
        quantity == QuantityOf(r.e, r.gone, t.key)
        closing_side == ClosingSide(t.key[2])
        c == create_order(r.e, symbol, closing_side, quantity, "MARKET", 0,
                          None, None, None)
        hit == KeyOf(symbol, PositionSideOf(closing_side))
        e2 == execute_market_order(c.e, c.id, ClosingPrice(t, close), high, low)
        deleted == hit \in r.held /\ hit \in PosKeys(c.e.positions)
                     /\ hit \notin PosKeys(e2.positions) /\ hit \notin DOMAIN r.gone
        left == c.e.positions[PosIndex(c.e.positions, hit)].quantity - quantity
        gone2 == IF deleted
                 THEN [k \in (DOMAIN r.gone) \cup {hit} |->
                         IF k = hit THEN left ELSE r.gone[k]]
                 ELSE r.gone
        r2 == IF c.ok
              THEN [e |-> e2, held |-> r.held, gone |-> gone2,
                    closings |-> Append(r.closings, c.id)]
              ELSE [r EXCEPT !.closings = Append(@, 0)]
    IN  CloseTriggered(r2, triggers, n + 1, symbol, high, low, close)

\* PendingMarket without the test of the order type
PendingMarket_AnyType(e, symbol) ==
  SelectSeq(e.orders, LAMBDA id : e.objs[id].symbol = symbol)

\* pending_orders: the open MARKET orders of the symbol, in dict order
PendingMarket(e, symbol) ==
  SelectSeq(e.orders, LAMBDA id : e.objs[id].symbol = symbol
                                    /\ e.objs[id].order_type = "MARKET")

\* ExecutePending that executes at the candle's high
RECURSIVE ExecutePending_AtHigh(_, _, _, _, _, _)
ExecutePending_AtHigh(e, pending, n, high, low, close) ==
  IF n > Len(pending) THEN e
  ELSE ExecutePending_AtHigh(execute_market_order(e, pending[n], high, high, low),
                             pending, n + 1, high, low, close)

\* "for order in pending_orders: self.execute_market_order(order, close, high, low)"
RECURSIVE ExecutePending(_, _, _, _, _, _)
ExecutePending(e, pending, n, high, low, close) ==
  IF n > Len(pending) THEN e
  ELSE ExecutePending(execute_market_order(e, pending[n], close, high, low),
                      pending, n + 1, high, low, close)

\* the TP/SL step of process_candle
TpSlStep(e, symbol, open_price, high, low, close) ==
  LET triggers == _check_tp_sl_improved(e, symbol, high, low)
      r == CloseTriggered([e |-> e, held |-> PosKeys(e.positions), gone |-> <<>>,
                           closings |-> <<>>],
                          triggers, 1, symbol, high, low, close)
  IN  [e |-> r.e, triggers |-> triggers, closings |-> r.closings,
       closed_keys |-> DOMAIN r.gone, pendings |-> <<>>]

\* PendingStep of a scan that a failed closing order ends
PendingStep_UnlessFailed(r, symbol, open_price, high, low, close) ==
  LET pending == PendingMarket(r.e, symbol)
  IN  IF \E n \in 1..Len(r.closings) : r.closings[n] = 0 THEN r
      ELSE [r EXCEPT !.e = ExecutePending(r.e, pending, 1, high, low, close),
                     !.pendings = pending]

\* the pending-orders step of process_candle
PendingStep(r, symbol, open_price, high, low, close) ==
  LET pending == PendingMarket(r.e, symbol)
  IN  [r EXCEPT !.e = ExecutePending(r.e, pending, 1, high, low, close),
                !.pendings = pending]

\* OrderEngine.process_candle: mark the positions, close the triggered ones,
\* then execute the pending market orders.  The result carries what the scan
\* did: the trigger entries, the closing order of each, the orders executed
\* as pending, the keys whose position was deleted by the TP/SL step and the
\* positions as that step left them.
process_candle(e, symbol, open_price, high, low, close) ==
  LET e1 == update_position_prices(e, symbol, close)
      r == TpSlStep(e1, symbol, open_price, high, low, close)
      r2 == PendingStep(r, symbol, open_price, high, low, close)
  IN  [e |-> r2.e, triggers |-> r2.triggers, closings |-> r2.closings,
       closed_keys |-> r2.closed_keys, pendings |-> r2.pendings,
       mid_keys |-> PosKeys(r.e.positions), mid_history |-> Len(r.e.order_history)]

(***************************************************************************)
(* Market data.  DataManager (src/data/manager.py) is not among the        *)
(* sources; it is modelled from the specification's market data provider:  *)
(* validate(symbol), price_at(symbol, time), candle_at_or_before(symbol,   *)
(* time), candles_after(symbol, time).  Time is counted in minutes, one    *)
(* candle per minute.                                                      *)
(***************************************************************************)
DataSymbols == {"ADA-USDT", "BTC-USDT"}

\* the candle of minute t: open, high, low, close in micro-USDT
KlineAt(symbol, t) ==
  LET k == t % 4
      ohlc == CASE k = 0 -> <<2, 2, 2, 2>>
                [] k = 1 -> <<2, 3, 2, 3>>
                [] k = 2 -> <<3, 3, 1, 1>>
                [] OTHER -> <<1, 2, 1, 2>>
  IN  [open |-> ohlc[1] * Scale, high |-> ohlc[2] * Scale,
       low |-> ohlc[3] * Scale, close |-> ohlc[4] * Scale]

validate_symbol(symbol) == symbol \in DataSymbols

\* price_at: the close of the candle at or before the time
get_current_price(symbol, t) == KlineAt(symbol, t).close

(***************************************************************************)
(* TimeManager (src/src/time/manager.py)                                   *)
(***************************************************************************)
\* TimeManager.__init__
InitTimeManager(start_time) ==
  [_current_time |-> start_time, _start_time |-> start_time, _callbacks |-> <<>>]

\* TimeManager.set_current_time: the callbacks are called with (old_time,
\* new_time), each inside its own try.  _callbacks is only written by
\* add_time_callback, which nothing in the program calls, so the loop runs
\* over an empty list and the engine e comes back as it was.
RECURSIVE RunCallbacks(_, _, _, _, _)
RunCallbacks(callbacks, n, e, old_time, new_time) ==
  IF n > Len(callbacks) THEN e
  ELSE RunCallbacks(callbacks, n + 1, e, old_time, new_time)

set_current_time(tm, e, new_time) ==
  [tm |-> [tm EXCEPT !._current_time = new_time],
   e |-> RunCallbacks(tm._callbacks, 1, e, tm._current_time, new_time)]

\* TimeManager.advance_time: _time_step is one minute
advance_time(tm, e, steps) == set_current_time(tm, e, tm._current_time + steps)

(***************************************************************************)
(* StateManager (src/src/state/manager.py): the five state files.  A file  *)
(* is <<>> while it does not exist and <<content>> once written.  A JSON   *)
(* string holding a number is the one-element sequence of the number, JSON *)
(* null the empty sequence.                                                *)
(***************************************************************************)
Str(x) == <<x>>
Null == <<>>
File(content) == <<content>>
NoFiles ==
  [balances_file |-> <<>>, positions_file |-> <<>>, orders_file |-> <<>>,
   order_history_file |-> <<>>, simulation_state_file |-> <<>>]

\* Balance.to_dict
BalanceToDict(b) ==
  [asset |-> b.asset, free |-> Str(b.free), locked |-> Str(b.locked),
   total |-> Str(b.total)]

\* Position.to_dict
PositionToDict(p) ==
  [symbol |-> p.symbol, side |-> p.side, quantity |-> Str(p.quantity),
   entryPrice |-> Str(p.entry_price), markPrice |-> Str(p.current_price),
   unrealizedPnl |-> Str(p.unrealized_pnl), realizedPnl |-> Str(p.realized_pnl),
   leverage |-> Str(p.leverage), margin |-> Str(p.margin),
   takeProfit |-> IF p.take_profit_price # None THEN Str(p.take_profit_price) ELSE Null,
   stopLoss |-> IF p.stop_loss_price # None THEN Str(p.stop_loss_price) ELSE Null]

\* Order.to_dict: the leverage attribute is not written; createTime and
\* updateTime are wall-clock instants (updateTime is the executed time, or
\* the created time of an order never executed), written here as 1
OrderToDict(o) ==
  [orderId |-> o.id, symbol |-> o.symbol, side |-> o.side,
   positionSide |-> o.position_side, type |-> o.order_type,
   quantity |-> Str(o.quantity), price |-> Str(o.price),
   executedPrice |-> Str(o.executed_price), executedQty |-> Str(o.executed_quantity),
   status |-> o.status,
   takeProfit |-> IF o.take_profit_price # None THEN Str(o.take_profit_price) ELSE Null,
   stopLoss |-> IF o.stop_loss_price # None THEN Str(o.stop_loss_price) ELSE Null,
   commission |-> Str(o.commission), createTime |-> 1, updateTime |-> 1]

\* StateManager.save_all_state
save_all_state(e, tm) ==
  [balances_file |-> File([a \in DOMAIN e.balances |-> BalanceToDict(e.balances[a])]),
   positions_file |-> File([i \in 1..Len(e.positions) |-> PositionToDict(e.positions[i])]),
   orders_file |-> File([i \in 1..Len(e.orders) |-> OrderToDict(e.objs[e.orders[i]])]),
   order_history_file |->
     File([i \in 1..Len(e.order_history) |-> OrderToDict(e.objs[e.order_history[i]])]),
   simulation_state_file |->
     File([current_time |-> tm._current_time, total_pnl |-> e.total_pnl])]

\* float(...) of a JSON string holding a number
Float(s) == s[1]

\* Balance(...) as load_balances builds it from a saved entry
BalanceFromDict(data) ==
  [asset |-> data.asset, free |-> Float(data.free), locked |-> Float(data.locked),
   total |-> Float(data.total)]

\* Position(...) as load_positions builds it from a saved entry
PositionFromDict(data) ==
  [symbol |-> data.symbol, side |-> data.side, quantity |-> Float(data.quantity),
   entry_price |-> Float(data.entryPrice), current_price |-> Float(data.markPrice),
   unrealized_pnl |-> Float(data.unrealizedPnl),
   realized_pnl |-> Float(data.realizedPnl),
   leverage |-> Float(data.leverage), margin |-> Float(data.margin),
   take_profit_price |-> IF data.takeProfit # Null THEN Float(data.takeProfit) ELSE None,
   stop_loss_price |-> IF data.stopLoss # Null THEN Float(data.stopLoss) ELSE None]

\* Order(...) as load_orders and load_order_history build it from a saved
\* entry: executed_time is read from updateTime whenever that is non-zero,
\* and the object gets no leverage attribute (None here)
OrderFromDict(data) ==
  [id |-> data.orderId, symbol |-> data.symbol, side |-> data.side,
   position_side |-> data.positionSide, order_type |-> data.type,
   quantity |-> Float(data.quantity), price |-> Float(data.price),
   executed_price |-> Float(data.executedPrice),
   executed_quantity |-> Float(data.executedQty), status |-> data.status,
   take_profit_price |-> IF data.takeProfit # Null THEN Float(data.takeProfit) ELSE None,
   stop_loss_price |-> IF data.stopLoss # Null THEN Float(data.stopLoss) ELSE None,
   commission |-> Float(data.commission),
   executed_time |-> IF data.updateTime # 0 THEN data.updateTime ELSE None,
   leverage |-> None]

\* StateManager.load_balances, load_positions, load_orders and
\* load_order_history: empty when the file does not exist
load_balances(files) ==
  IF files.balances_file = <<>> THEN <<>>
  ELSE [a \in DOMAIN files.balances_file[1] |-> BalanceFromDict(files.balances_file[1][a])]

load_positions(files) ==
  IF files.positions_file = <<>> THEN <<>>
  ELSE [i \in DOMAIN files.positions_file[1] |-> PositionFromDict(files.positions_file[1][i])]

load_orders(files) ==
  IF files.orders_file = <<>> THEN <<>>
  ELSE [i \in DOMAIN files.orders_file[1] |-> OrderFromDict(files.orders_file[1][i])]

load_order_history(files) ==
  IF files.order_history_file = <<>> THEN <<>>
  ELSE [i \in DOMAIN files.order_history_file[1] |->
          OrderFromDict(files.order_history_file[1][i])]

\* StateManager.load_all_state into the engine e and the clock tm: a loaded
\* collection replaces the engine's when it is not empty, the clock and the
\* total PnL are set when the simulation state file exists.  Every loaded
\* Order is a new object, stored in the heap at its id.
load_all_state(e, tm, files) ==
  LET loaded_balances == load_balances(files)
      loaded_positions == load_positions(files)
      loaded_orders == load_orders(files)
      order_history == load_order_history(files)
      ids == {loaded_orders[i].id : i \in DOMAIN loaded_orders}
               \cup {order_history[i].id : i \in DOMAIN order_history}
      top == IF ids = {} THEN Len(e.objs)
             ELSE CHOOSE n \in ids : \A m \in ids : m <= n
      Object(id) ==
        IF \E i \in DOMAIN loaded_orders : loaded_orders[i].id = id
        THEN loaded_orders[CHOOSE i \in DOMAIN loaded_orders : loaded_orders[i].id = id]
        ELSE IF \E i \in DOMAIN order_history : order_history[i].id = id
        THEN order_history[CHOOSE i \in DOMAIN order_history : order_history[i].id = id]
        ELSE IF id <= Len(e.objs) THEN e.objs[id]
        ELSE NewOrder(id, "", "BUY", "MARKET", 0, 0, None, None, None)
      e1 == [e EXCEPT
               !.balances = IF DOMAIN loaded_balances # {} THEN loaded_balances ELSE @,
               !.positions = IF loaded_positions # <<>> THEN loaded_positions ELSE @,
               !.orders = IF loaded_orders # <<>>
                          THEN [i \in DOMAIN loaded_orders |-> loaded_orders[i].id]
                          ELSE @,
               !.order_history = IF order_history # <<>>
                                 THEN [i \in DOMAIN order_history |-> order_history[i].id]
                                 ELSE @,
               !.objs = [id \in 1..(IF top > Len(e.objs) THEN top ELSE Len(e.objs))
                           |-> Object(id)]]
  IN  IF files.simulation_state_file = <<>> THEN [e |-> e1, tm |-> tm]
      ELSE LET state == files.simulation_state_file[1]
               t == set_current_time(tm, e1, state.current_time)
           IN  [e |-> [t.e EXCEPT !.total_pnl = state.total_pnl], tm |-> t.tm]

(***************************************************************************)
(* BingXEmulatorAPI (src/src/api/server.py): the routes that change state  *)
(***************************************************************************)
\* the first TP or SL condition a candle meets, as the look-ahead of
\* _simulate_immediate_execution tests them: TP before SL
ImmediateTrigger(p, high, low) ==
  IF p.take_profit_price # None
     /\ ((p.side = "LONG" /\ high >= p.take_profit_price)
         \/ (p.side = "SHORT" /\ low <= p.take_profit_price))
  THEN <<[trigger_type |-> "TP", trigger_price |-> p.take_profit_price]>>
  ELSE IF p.stop_loss_price # None
          /\ ((p.side = "LONG" /\ low <= p.stop_loss_price)
              \/ (p.side = "SHORT" /\ high >= p.stop_loss_price))
       THEN <<[trigger_type |-> "SL", trigger_price |-> p.stop_loss_price]>>
       ELSE <<>>

\* PnL the look-ahead reports for a price
ImmediatePnl(p, price) ==
  IF p.side = "LONG" THEN ((price - p.entry_price) * p.quantity) * p.leverage
  ELSE ((p.entry_price - price) * p.quantity) * p.leverage

\* "for timestamp, candle in future_data.iterrows()": stops at the first
\* candle after current_time that meets a condition
RECURSIVE LookAhead(_, _, _, _)
LookAhead(p, symbol, t, last_kline) ==
  IF t > last_kline THEN <<>>
  ELSE LET k == KlineAt(symbol, t)
           hit == ImmediateTrigger(p, k.high, k.low)
       IN  IF hit # <<>>
           THEN <<[triggered |-> TRUE, trigger_type |-> hit[1].trigger_type,
                   trigger_price |-> hit[1].trigger_price, trigger_timestamp |-> t,
                   pnl |-> ImmediatePnl(p, hit[1].trigger_price)]>>
           ELSE LookAhead(p, symbol, t + 1, last_kline)

\* BingXEmulatorAPI._simulate_immediate_execution: <<>> for None, else
\* <<execution_result>>.  It reads the engine and changes nothing.
_simulate_immediate_execution(e, id, symbol, current_time, last_kline) ==
  LET order == e.objs[id]
      i == PosIndex(e.positions, KeyOf(symbol, order.position_side))
      position == e.positions[i]
      found == LookAhead(position, symbol, current_time + 1, last_kline)
  IN  IF i = 0 THEN <<>>
      ELSE IF found # <<>> THEN found
      ELSE <<[triggered |-> FALSE, trigger_type |-> "None", trigger_price |-> 0,
              trigger_timestamp |-> 0,
              pnl |-> ImmediatePnl(position, get_current_price(symbol, current_time))]>>

\* POST /openApi/swap/v2/trade/order.  rq: symbol, side, type, quantity,
\* takeProfit, stopLoss (the stopPrice of each, None when absent), immediate.
\* The result carries the response code, the order's id, the engine, the
\* state files and the "execution" entry of the response.
api_create_order(e, tm, files, rq, last_kline) ==
  LET c == create_order(e, rq.symbol, rq.side, rq.quantity, rq.type, 0,
                        rq.takeProfit, rq.stopLoss, None)
      now == tm._current_time
      current_price == get_current_price(rq.symbol, now)
      current_candle == KlineAt(rq.symbol, now)
      executes == rq.type = "MARKET" /\ current_price # 0
      e2 == IF executes
            THEN execute_market_order(c.e, c.id, current_price,
                                      current_candle.high, current_candle.low)
            ELSE c.e
      files2 == IF executes THEN save_all_state(e2, tm) ELSE files
      execution == IF rq.immediate /\ e2.objs[c.id].status = "FILLED"
                   THEN _simulate_immediate_execution(e2, c.id, rq.symbol, now, last_kline)
                   ELSE <<>>
  IN  IF ~ validate_symbol(rq.symbol)
      THEN [code |-> 404, msg |-> "Symbol not found", id |-> None, e |-> e,
            files |-> files, execution |-> <<>>]
      ELSE IF ~ c.ok
      THEN [code |-> 400, msg |-> c.msg, id |-> None, e |-> e,
            files |-> files, execution |-> <<>>]
      ELSE [code |-> 0, msg |-> "success", id |-> c.id, e |-> e2,
            files |-> files2, execution |-> execution]

\* AwaitPoints of a handler that is suspended between reading and writing
\* the free balance
AwaitPoints_InDebit == {"read"}

\* The positions of the create_order handler at which the coroutine awaits,
\* and so lets the event loop run another handler: the handler is an
\* "async def" that awaits nothing.
AwaitPoints == {}

\* a handler coroutine of POST /openApi/swap/v2/trade/order, not yet started
NewHandler(rq) ==
  [rq |-> rq, pc |-> "start", id |-> None, free_read |-> 0, code |-> 0,
   execution |-> <<>>]

\* One stretch of the create_order handler, from position h.pc to the next:
\* "start" validates and creates the order, "created" reads the market price
\* and the free balance the debit starts from, "read" writes the execution
\* (usdt_balance.free -= ... on the balance read) and saves the state,
\* "saved" runs the immediate simulation and returns.
HandlerStep(x, tm, last_kline) ==
  LET h == x.h
      rq == h.rq
      now == tm._current_time
      c == create_order(x.e, rq.symbol, rq.side, rq.quantity, rq.type, 0,
                        rq.takeProfit, rq.stopLoss, None)
      current_price == get_current_price(rq.symbol, now)
      current_candle == KlineAt(rq.symbol, now)
      e2 == execute_market_order(x.e, h.id, current_price,
                                 current_candle.high, current_candle.low)
      free2 == h.free_read + (e2.balances["USDT"].free - x.e.balances["USDT"].free)
      e3 == [e2 EXCEPT !.balances["USDT"].free = free2,
                       !.balances["USDT"].total = free2 + e2.balances["USDT"].locked]
  IN  CASE h.pc = "start" ->
             IF ~ validate_symbol(rq.symbol)
             THEN [x EXCEPT !.h.pc = "done", !.h.code = 404]
             ELSE IF ~ c.ok
             THEN [x EXCEPT !.h.pc = "done", !.h.code = 400]
             ELSE [x EXCEPT !.e = c.e, !.h.id = c.id,
                            !.h.pc = IF rq.type = "MARKET" /\ current_price # 0
                                     THEN "created" ELSE "saved"]
        [] h.pc = "created" ->
             [x EXCEPT !.h.free_read = x.e.balances["USDT"].free, !.h.pc = "read"]
        [] h.pc = "read" ->
             [x EXCEPT !.e = e3, !.files = save_all_state(e3, tm), !.h.pc = "saved"]
        [] OTHER ->
             [x EXCEPT !.h.pc = "done",
                       !.h.execution =
                          IF rq.immediate /\ x.e.objs[h.id].status = "FILLED"
                          THEN _simulate_immediate_execution(x.e, h.id, rq.symbol,
                                                             now, last_kline)
                          ELSE <<>>]

\* the event loop runs a handler until it awaits or returns
RECURSIVE RunHandler(_, _, _)
RunHandler(x, tm, last_kline) ==
  LET y == HandlerStep(x, tm, last_kline)
  IN  IF y.h.pc = "done" \/ y.h.pc \in AwaitPoints THEN y
      ELSE RunHandler(y, tm, last_kline)

\* DELETE /openApi/swap/v2/trade/order
api_cancel_order(e, orderId) ==
  LET c == cancel_order(e, orderId)
  IN  [code |-> IF c.ok THEN 0 ELSE 400, msg |-> c.msg, e |-> c.e]

\* POST /api/v1/time/advance: advance the clock, then save the state
api_advance_time(e, tm, steps) ==
  LET a == advance_time(tm, e, steps)
  IN  [code |-> 0, e |-> a.e, tm |-> a.tm, files |-> save_all_state(a.e, a.tm)]

(***************************************************************************)
(* The state machine.  The variables are the fields of BalanceManager and  *)
(* OrderEngine; objs holds the Order objects handed to the caller;         *)
(* commission_paid and last are history variables (last: the operation     *)
(* that produced the state and what it returned).  time_manager is the     *)
(* server's TimeManager and saved the state files of its StateManager.     *)
(***************************************************************************)
\* calc is the last call of a pricing function made on its own: what it was
\* given and what it returned.  inflight holds the handler coroutines of the
\* requests the server has accepted together, and the state they found.
VARIABLES balances, positions, total_pnl, orders, order_history, objs,
          commission_paid, last, time_manager, saved, calc, inflight

vars == <<balances, positions, total_pnl, orders, order_history, objs,
          commission_paid, last, time_manager, saved, calc, inflight>>

\* bounds of the exploration: orders callers create, Order objects in all
\* (with the closing orders process_candle creates), entries of order_history
MaxOrders == 2
MaxObjects == 4
MaxHistory == 4

Symbols == {"ADA-USDT", "BTC-USDT"}
USDT(n) == n * Scale

\* a candle: open, high, low, close
Candle(o, h, l, c) == [open |-> USDT(o), high |-> USDT(h), low |-> USDT(l), close |-> USDT(c)]
NoCandle == Candle(0, 0, 0, 0)
Candles == {Candle(2, 2, 2, 2), Candle(2, 3, 2, 2), Candle(2, 3, 1, 2)}

\* market prices a caller executes at (a candle's pending orders fill at its close)
MarketPrices == {USDT(3)}

\* the requests callers make of create_order
Request(symbol, side, quantity, order_type, price, tp, sl, leverage) ==
  [symbol |-> symbol, side |-> side, quantity |-> quantity, order_type |-> order_type,
   price |-> price, take_profit |-> tp, stop_loss |-> sl, leverage |-> leverage]
Requests ==
  { Request("ADA-USDT", "BUY", 100, "MARKET", 0, USDT(3), USDT(1), None),
    Request("ADA-USDT", "BUY", 200, "MARKET", 0, None, None, 1),
    Request("ADA-USDT", "SELL", 100, "MARKET", 0, USDT(1), USDT(3), None),
    Request("ADA-USDT", "BUY", 100, "LIMIT", USDT(2), None, None, None),
    Request("BTC-USDT", "BUY", 200, "MARKET", 0, USDT(3), None, 1),
    Request("ADA-USDT", "BUY", 0, "MARKET", 0, None, None, None),
    Request("ADA-USDT", "HOLD", 100, "MARKET", 0, None, None, None),
    Request("ADA-USDT", "BUY", 100, "STOP", 0, None, None, None) }

Engine ==
  [balances |-> balances, positions |-> positions, total_pnl |-> total_pnl,
   orders |-> orders, order_history |-> order_history, objs |-> objs,
   commission_paid |-> commission_paid]

Becomes(e) ==
  /\ balances' = e.balances
  /\ positions' = e.positions
  /\ total_pnl' = e.total_pnl
  /\ orders' = e.orders
  /\ order_history' = e.order_history
  /\ objs' = e.objs
  /\ commission_paid' = e.commission_paid

NoFlight == [base |-> <<>>, handlers |-> <<>>]
NoCalc == [op |-> "", value |-> 0, result |-> 0, other |-> 0, other_result |-> 0]

Did(op, ok, id, symbol, price, candle) ==
  [op |-> op, ok |-> ok, id |-> id, symbol |-> symbol, price |-> price,
   candle |-> candle, triggers |-> <<>>, closings |-> <<>>, pendings |-> <<>>,
   closed_keys |-> {}, mid_keys |-> {}, mid_history |-> 0, msg |-> "",
   code |-> 0, immediate |-> FALSE, execution |-> <<>>, old_time |-> 0]

Init ==
  LET e == InitEngine(DEFAULT_BALANCE)
  IN  /\ balances = e.balances
      /\ positions = e.positions
      /\ total_pnl = e.total_pnl
      /\ orders = e.orders
      /\ order_history = e.order_history
      /\ objs = e.objs
      /\ commission_paid = e.commission_paid
      /\ last = Did("init", TRUE, 0, "", 0, NoCandle)
      /\ time_manager = InitTimeManager(0)
      /\ saved = NoFiles
      /\ calc = NoCalc
      /\ inflight = NoFlight

\* a caller creates an order
CreateOrder(q) ==
  /\ Len(objs) < MaxOrders
  /\ \E c \in {create_order(Engine, q.symbol, q.side, q.quantity, q.order_type,
                           q.price, q.take_profit, q.stop_loss, q.leverage)} :
         /\ Becomes(c.e)
         /\ last' = [Did("create_order", c.ok, c.id, q.symbol, 0, NoCandle) EXCEPT
                       !.msg = c.msg]
  /\ UNCHANGED <<time_manager, saved, calc, inflight>>

\* a caller executes an order it holds at a market price
ExecuteMarketOrder(id, price) ==
  /\ Len(order_history) < MaxHistory
  /\ \E e \in {execute_market_order(Engine, id, price, price, price)} : Becomes(e)
  /\ last' = Did("execute_market_order", TRUE, id, objs[id].symbol, price, NoCandle)
  /\ UNCHANGED <<time_manager, saved, calc, inflight>>

\* a caller cancels by order id
CancelOrder(id) ==
  /\ Len(order_history) < MaxHistory
  /\ \E c \in {cancel_order(Engine, id)} :
         /\ Becomes(c.e)
         /\ last' = [Did("cancel_order", c.ok, id, "", 0, NoCandle) EXCEPT
                       !.msg = c.msg]
  /\ UNCHANGED <<time_manager, saved, calc, inflight>>

\* a candle of a symbol is processed
ProcessCandle(symbol, k) ==
  /\ \E r \in {process_candle(Engine, symbol, k.open, k.high, k.low, k.close)} :
         /\ Len(r.e.objs) <= MaxObjects
         /\ Len(r.e.order_history) <= MaxHistory
         /\ Becomes(r.e)
         /\ last' = [Did("process_candle", TRUE, 0, symbol, 0, k) EXCEPT
                       !.triggers = r.triggers, !.closings = r.closings,
                       !.pendings = r.pendings, !.closed_keys = r.closed_keys,
                       !.mid_keys = r.mid_keys, !.mid_history = r.mid_history]
  /\ UNCHANGED <<time_manager, saved, calc, inflight>>

Next ==
  \/ \E q \in Requests : CreateOrder(q)
  \/ \E id \in 1..Len(objs), price \in MarketPrices : ExecuteMarketOrder(id, price)
  \/ \E id \in 1..MaxObjects : CancelOrder(id)
  \/ \E symbol \in Symbols, k \in Candles : ProcessCandle(symbol, k)

Spec == Init /\ [][Next]_vars

(***************************************************************************)
(* The server: the engine as the HTTP routes drive it.  No route and no    *)
(* clock callback calls process_candle.                                    *)
(***************************************************************************)
\* bound of the exploration: minutes the clock is advanced to
MaxTime == 3
\* the data reach one candle beyond the last minute the clock reaches
LastKline == MaxTime + 1
Steps == {1, 2}

ApiRequest(symbol, side, type, quantity, tp, sl, immediate) ==
  [symbol |-> symbol, side |-> side, type |-> type, quantity |-> quantity,
   takeProfit |-> tp, stopLoss |-> sl, immediate |-> immediate]
ApiRequests ==
  { ApiRequest("ADA-USDT", "BUY", "MARKET", 100, USDT(3), USDT(1), TRUE),
    ApiRequest("ADA-USDT", "BUY", "MARKET", 100, USDT(3), USDT(1), FALSE),
    ApiRequest("ADA-USDT", "SELL", "MARKET", 100, USDT(1), None, TRUE),
    ApiRequest("BTC-USDT", "BUY", "LIMIT", 100, None, None, FALSE),
    ApiRequest("XRP-USDT", "BUY", "MARKET", 100, None, None, FALSE) }

\* a client posts an order
ApiCreateOrder(rq) ==
  /\ Len(objs) < MaxOrders
  /\ Len(order_history) < MaxHistory
  /\ \E r \in {api_create_order(Engine, time_manager, saved, rq, LastKline)} :
         /\ Becomes(r.e)
         /\ saved' = r.files
         /\ last' = [Did("api_create_order", r.code = 0, r.id, rq.symbol, 0, NoCandle)
                       EXCEPT !.msg = r.msg, !.code = r.code,
                              !.immediate = rq.immediate, !.execution = r.execution,
                              !.old_time = time_manager._current_time]
  /\ UNCHANGED <<time_manager, calc, inflight>>

\* a client cancels an order
ApiCancelOrder(id) ==
  /\ Len(order_history) < MaxHistory
  /\ \E r \in {api_cancel_order(Engine, id)} :
         /\ Becomes(r.e)
         /\ last' = [Did("api_cancel_order", r.code = 0, id, "", 0, NoCandle)
                       EXCEPT !.msg = r.msg, !.code = r.code,
                              !.old_time = time_manager._current_time]
  /\ UNCHANGED <<time_manager, saved, calc, inflight>>

\* a client advances the clock
ApiAdvanceTime(steps) ==
  /\ time_manager._current_time + steps <= MaxTime
  /\ \E r \in {api_advance_time(Engine, time_manager, steps)} :
         /\ Becomes(r.e)
         /\ time_manager' = r.tm
         /\ saved' = r.files
         /\ last' = [Did("api_advance_time", TRUE, 0, "", 0, NoCandle)
                       EXCEPT !.old_time = time_manager._current_time]
  /\ UNCHANGED <<calc, inflight>>

NextServer ==
  \/ \E rq \in ApiRequests : ApiCreateOrder(rq)
  \/ \E id \in 1..MaxObjects : ApiCancelOrder(id)
  \/ \E steps \in Steps : ApiAdvanceTime(steps)

SpecServer == Init /\ [][NextServer]_vars

(***************************************************************************)
(* Persistence.  The emulator process exits and is started again: _cleanup *)
(* saves all state on exit, __init__ builds a new balance manager, order   *)
(* engine and clock and loads the saved state into them.                   *)
(***************************************************************************)
Restart ==
  /\ \E files \in {save_all_state(Engine, time_manager)} :
       \E r \in {load_all_state(InitEngine(DEFAULT_BALANCE), InitTimeManager(0), files)} :
         /\ Becomes([r.e EXCEPT !.commission_paid = commission_paid])
         /\ time_manager' = r.tm
         /\ saved' = files
         /\ last' = [Did("restart", TRUE, 0, "", 0, NoCandle)
                       EXCEPT !.old_time = time_manager._current_time]
  /\ UNCHANGED <<calc, inflight>>

NextPersist ==
  \/ \E rq \in ApiRequests : ApiCreateOrder(rq)
  \/ \E id \in 1..MaxObjects : ApiCancelOrder(id)
  \/ \E steps \in Steps : ApiAdvanceTime(steps)
  \/ Restart

SpecPersist == Init /\ [][NextPersist]_vars

(***************************************************************************)
(* The server under concurrent requests: two order requests are accepted   *)
(* together and the event loop runs their handlers, each from where it is  *)
(* to its next await or to its return.                                     *)
(***************************************************************************)
Idle == inflight = NoFlight
Returned ==
  /\ inflight # NoFlight
  /\ \A i \in 1..Len(inflight.handlers) : inflight.handlers[i].pc = "done"

\* two order requests arrive together
Arrive(rq1, rq2) ==
  /\ Idle
  /\ Len(objs) + 2 <= MaxObjects
  /\ Len(order_history) + 2 <= MaxHistory
  /\ inflight' = [base |-> <<[e |-> Engine, files |-> saved]>>,
                  handlers |-> <<NewHandler(rq1), NewHandler(rq2)>>]
  /\ UNCHANGED <<balances, positions, total_pnl, orders, order_history, objs,
                 commission_paid, last, time_manager, saved, calc>>

\* the event loop runs handler i
Resume(i) ==
  /\ i \in 1..Len(inflight.handlers)
  /\ inflight.handlers[i].pc # "done"
  /\ \E y \in {RunHandler([e |-> Engine, files |-> saved, h |-> inflight.handlers[i]],
                           time_manager, LastKline)} :
         /\ Becomes(y.e)
         /\ saved' = y.files
         /\ inflight' = [inflight EXCEPT !.handlers[i] = y.h]
         /\ last' = [Did("api_create_order", y.h.code = 0, y.h.id, y.h.rq.symbol, 0, NoCandle)
                       EXCEPT !.code = y.h.code, !.immediate = y.h.rq.immediate,
                              !.execution = y.h.execution,
                              !.old_time = time_manager._current_time]
  /\ UNCHANGED <<time_manager, calc>>

\* the responses of the handlers that have returned are sent
Respond ==
  /\ Returned
  /\ inflight' = NoFlight
  /\ UNCHANGED <<balances, positions, total_pnl, orders, order_history, objs,
                 commission_paid, last, time_manager, saved, calc>>

\* the clock is advanced while no order request is being handled
AdvanceWhenIdle(steps) ==
  /\ Idle
  /\ ApiAdvanceTime(steps)

NextConcurrent ==
  \/ \E rq1 \in ApiRequests, rq2 \in ApiRequests : Arrive(rq1, rq2)
  \/ \E i \in 1..2 : Resume(i)
  \/ Respond
  \/ \E steps \in Steps : AdvanceWhenIdle(steps)

SpecConcurrent == Init /\ [][NextConcurrent]_vars

(***************************************************************************)
(* The position book: orders created and executed, and the two steps of    *)
(* the candle scan that read and mark the book, each called on its own.    *)
(***************************************************************************)
MarkPrices == {USDT(1), USDT(2)}
BookRequests ==
  { Request("ADA-USDT", "BUY", 100, "MARKET", 0, USDT(3), USDT(1), None),
    Request("ADA-USDT", "SELL", 100, "MARKET", 0, USDT(1), USDT(3), None),
    Request("BTC-USDT", "BUY", 200, "MARKET", 0, USDT(3), None, 1) }

\* BalanceManager.update_position_prices is called
UpdatePositionPrices(symbol, price) ==
  /\ Becomes(update_position_prices(Engine, symbol, price))
  /\ last' = Did("update_position_prices", TRUE, 0, symbol, price, NoCandle)
  /\ UNCHANGED <<time_manager, saved, calc, inflight>>

\* OrderEngine._check_tp_sl_improved is called: it returns its list
CheckTpSl(symbol, k) ==
  /\ last' = [Did("_check_tp_sl_improved", TRUE, 0, symbol, 0, k) EXCEPT
                !.triggers = _check_tp_sl_improved(Engine, symbol, k.high, k.low)]
  /\ UNCHANGED <<balances, positions, total_pnl, orders, order_history, objs,
                 commission_paid, time_manager, saved, calc, inflight>>

NextBook ==
  \/ \E q \in BookRequests : CreateOrder(q)
  \/ \E id \in 1..Len(objs), price \in MarketPrices : ExecuteMarketOrder(id, price)
  \/ \E symbol \in Symbols, price \in MarkPrices : UpdatePositionPrices(symbol, price)
  \/ \E symbol \in Symbols, k \in Candles : CheckTpSl(symbol, k)

SpecBook == Init /\ [][NextBook]_vars

(***************************************************************************)
(* Pricing.  The pricing functions called on their own, on values on both  *)
(* sides of every threshold, and small orders created and executed at a    *)
(* market price of 1.00.                                                   *)
(***************************************************************************)
\* volumes handed to get_slippage are counted in cents here, so that the
\* highest thresholds are inside the integers
Cent == 100
SlippageVolumes ==
  {v * Cent + d : v \in {0, 100, 1000, 10000}, d \in {-1, 0}}
    \cup {5000 * Cent, 20000 * Cent}
\* order values handed to calculate_commission: whole USDT, in micro-USDT
CommissionValues == {USDT(n) : n \in {-10, 0, 1, 57, 58, 100}}
PricingPrices == {USDT(1)}
PricingRequests ==
  { Request("ADA-USDT", "BUY", 100, "MARKET", 0, None, None, None),
    Request("ADA-USDT", "BUY", 1, "MARKET", 0, None, None, None),
    Request("ADA-USDT", "SELL", 1, "MARKET", 0, None, None, None) }

Kept == UNCHANGED <<balances, positions, total_pnl, orders, order_history, objs,
                    commission_paid, last, time_manager, saved, inflight>>

\* Settings.get_slippage is called for two volumes
GetSlippage(v, w) ==
  /\ calc' = [op |-> "get_slippage", value |-> v,
              result |-> get_slippage_in(Cent, v),
              other |-> w, other_result |-> get_slippage_in(Cent, w)]
  /\ Kept

\* BalanceManager.calculate_commission is called for an order value
CalculateCommission(v) ==
  /\ calc' = [op |-> "calculate_commission", value |-> v,
              result |-> calculate_commission(v), other |-> 0, other_result |-> 0]
  /\ Kept

NextPricing ==
  \/ \E v \in SlippageVolumes, w \in SlippageVolumes : GetSlippage(v, w)
  \/ \E v \in CommissionValues : CalculateCommission(v)
  \/ \E q \in PricingRequests : CreateOrder(q)
  \/ \E id \in 1..Len(objs), price \in PricingPrices : ExecuteMarketOrder(id, price)

SpecPricing == Init /\ [][NextPricing]_vars

(***************************************************************************)
(* Properties                                                              *)
(***************************************************************************)
Free == balances["USDT"].free
Scanned == last.op = "process_candle"
Executed == last.op = "execute_market_order"
TriggeredKeys == {last.triggers[n].key : n \in 1..Len(last.triggers)}
Closings == {last.closings[n] : n \in 1..Len(last.closings)} \ {0}
Pendings == {last.pendings[n] : n \in 1..Len(last.pendings)}

RECURSIVE SumMargin(_)
SumMargin(ps) == IF ps = <<>> THEN 0 ELSE Head(ps).margin + SumMargin(Tail(ps))

\* C1: when process_candle handles a candle that breaches the TP or SL of an
\* open position of the symbol, that position is no longer in the book when
\* the call ends (scans that also fill pending orders are left aside, since a
\* pending order may open the slot again).
C1_TriggeredPositionClosed ==
  (Scanned /\ last.pendings = <<>>) => \A key \in TriggeredKeys : key \notin PosKeys(positions)

\* C2: an execution that fully closes a position credits free USDT with the
\* position's stored margin plus the realized PnL of the close and deducts
\* only the commission of the closing fill.
C2_CloseCreditsMarginAndPnl ==
  [][ \A id \in 1..Len(objs) :
        LET o == objs[id]
            key == KeyOf(o.symbol, o.position_side)
            i == PosIndex(positions, key)
        IN  (last'.op = "execute_market_order" /\ last'.id = id
               /\ i # 0 /\ key \notin PosKeys(positions'))
            => balances'["USDT"].free =
                 Free + positions[i].margin + (total_pnl' - total_pnl)
                   - objs'[id].commission ]_vars

\* C3: a second fill with the same order side in a slot that a first fill of
\* quantity q1 at price p1 opened leaves quantity q1 + q2 and the
\* quantity-weighted average entry price (p1*q1 + p2*q2) / (q1 + q2).
C3_WeightedAverageEntry ==
  [][ \A id \in 1..Len(objs) :
        LET o == objs[id]
            key == KeyOf(o.symbol, o.position_side)
            i == PosIndex(positions, key)
            j == PosIndex(positions', key)
            q1 == positions[i].quantity
            p1 == positions[i].entry_price
            q2 == objs'[id].executed_quantity
            p2 == objs'[id].executed_price
        IN  (last'.op = "execute_market_order" /\ last'.id = id /\ i # 0
               /\ o.side # ClosingSide(key[2]))
            => /\ j # 0
               /\ positions'[j].quantity = q1 + q2
               /\ positions'[j].entry_price * (q1 + q2) = p1 * q1 + p2 * q2 ]_vars

\* C4: the margin held by the open positions never exceeds the initial free
\* balance minus the commissions charged and minus the net realized losses.
C4_MarginWithinCapital ==
  SumMargin(positions) <= DEFAULT_BALANCE - commission_paid + total_pnl

\* C5: for every asset, total = free + locked in every reachable state.
C5_TotalIsFreePlusLocked ==
  \A a \in DOMAIN balances : balances[a].total = balances[a].free + balances[a].locked

\* C5 witness: an execution has closed a position and returned its margin.
C5_Witness ==
  /\ Executed
  /\ KeyOf(objs[last.id].symbol, objs[last.id].position_side) \notin PosKeys(positions)
  /\ Free # DEFAULT_BALANCE

\* C6: every position in the book has quantity > 0; a fill that brings the
\* quantity to <= 0 leaves no position under that key.
C6_PositiveQuantity ==
  \A i \in 1..Len(positions) : positions[i].quantity > 0

\* C6 witness: the last execution removed the position of its slot.
C6_Witness ==
  /\ Executed
  /\ objs[last.id].executed_quantity > 0
  /\ KeyOf(objs[last.id].symbol, objs[last.id].position_side) \notin PosKeys(positions)

\* C7: a candle that breaches both the TP and the SL of one position yields
\* exactly one closing order for that position.
C7_OneClosingOrder ==
  Scanned =>
    \A key \in TriggeredKeys :
      LET entries == {n \in 1..Len(last.triggers) : last.triggers[n].key = key}
      IN  (\E n, m \in entries : last.triggers[n].kind = "TP" /\ last.triggers[m].kind = "SL")
          => Cardinality({n \in entries : last.closings[n] # 0}) = 1

\* C8 as stated: every closing order of the TP/SL scan has the declared
\* take_profit_price or stop_loss_price as its execution price.
C8_ExecutedAtDeclaredPrice ==
  Scanned =>
    \A n \in 1..Len(last.triggers) :
      last.closings[n] # 0 => objs[last.closings[n]].executed_price = last.triggers[n].price

\* C8 amended: every closing order of the TP/SL scan is executed with the
\* position's declared take_profit_price (TP) or stop_loss_price (SL) as the
\* market price, never the candle's close: its execution price is that
\* declared price plus (BUY) or minus (SELL) the slippage on it.
C8_ExecutedFromDeclaredPrice ==
  [][ last'.op = "process_candle" =>
        \A n \in 1..Len(last'.triggers) :
          LET t == last'.triggers[n]
              p == positions[PosIndex(positions, t.key)]
              id == last'.closings[n]
          IN  id # 0 =>
                /\ t.price = (IF t.kind = "TP" THEN p.take_profit_price ELSE p.stop_loss_price)
                /\ objs'[id].status = "FILLED"
                /\ objs'[id].executed_price =
                     ExecutionPrice(objs'[id].side, objs'[id].quantity, t.price) ]_vars

\* C8 witness: a scan has executed a closing order at a trigger price that
\* differs from the candle's close.
C8_Witness ==
  /\ Scanned
  /\ \E n \in 1..Len(last.triggers) :
       last.closings[n] # 0 /\ last.triggers[n].price # last.candle.close

\* C9: within one process_candle call the TP/SL closings come before the
\* fills of the pending market orders (so also in order_history), and a
\* position closed by the pass's closing orders is not opened again by them.
C9_ClosingsBeforePending ==
  Scanned =>
    /\ \A i, j \in 1..Len(order_history) :
         (order_history[i] \in Closings /\ order_history[j] \in Pendings) => i < j
    /\ \A i \in 1..Len(order_history) :
         order_history[i] \in Closings => i <= last.mid_history
    /\ last.closed_keys \cap last.mid_keys = {}

\* C10: an order that is FILLED or CANCELLED never changes status again.
C10_TerminalStatus ==
  [][ \A id \in 1..Len(objs) :
        objs[id].status \in {"FILLED", "CANCELLED"} => objs'[id].status = objs[id].status ]_vars

\* C11: every order in the open-orders map is PENDING, every order in the
\* history list is FILLED or CANCELLED, and no order is in both.
C11_OpenPendingHistoryTerminal ==
  /\ \A i \in 1..Len(orders) : objs[orders[i]].status = "PENDING"
  /\ \A i \in 1..Len(order_history) :
       objs[order_history[i]].status \in {"FILLED", "CANCELLED"}
  /\ \A i \in 1..Len(orders), j \in 1..Len(order_history) : orders[i] # order_history[j]

\* C11 witness: an order is open while the history holds two entries, one of
\* them of a filled order.
C11_Witness ==
  /\ orders # <<>>
  /\ Len(order_history) >= 2
  /\ \E i \in 1..Len(order_history) : objs[order_history[i]].status = "FILLED"

\* C12: the history list is append-only: every operation leaves the history
\* it found as a prefix of the history it leaves (no entry is removed,
\* replaced by another order or reordered).
C12_HistoryAppendOnly ==
  [][ /\ Len(order_history') >= Len(order_history)
      /\ SubSeq(order_history', 1, Len(order_history)) = order_history ]_vars

\* C12 witness: an operation has appended to a history that already held an
\* entry of the same order.
C12_Witness ==
  /\ last.op \in {"execute_market_order", "cancel_order"} /\ last.ok
  /\ Len(order_history) >= 2
  /\ \E i \in 1..(Len(order_history) - 1) :
       order_history[i] = order_history[Len(order_history)]

\* no order, open-orders map, history entry, balance or position changes
NoMutation ==
  UNCHANGED <<balances, positions, total_pnl, orders, order_history, objs>>

\* a request with a valid side, a valid type and a quantity > 0
WellFormed(q) ==
  q.side \in {"BUY", "SELL"} /\ q.order_type \in {"MARKET", "LIMIT"} /\ q.quantity > 0

\* what a request has to reserve: margin plus commission on its order value,
\* the order value of a MARKET request being 0 until the order is executed
RequiredTotal(q) ==
  LET order_value == q.quantity * (IF q.order_type = "MARKET" THEN 0 ELSE q.price)
      lev == IF q.leverage # None THEN q.leverage ELSE DEFAULT_LEVERAGE
  IN  (order_value \div lev) + Max((order_value \div RATE_DEN) * COMMISSION_RATE_NUM,
                                   MIN_COMMISSION)

\* C13: create on a well-formed request whose required margin plus commission
\* exceeds free USDT fails with the insufficient-balance reason, returns no
\* order and changes no order, history entry, balance or position.
C13_InsufficientBalanceRejected ==
  [][ \A q \in Requests :
        (CreateOrder(q) /\ WellFormed(q) /\ RequiredTotal(q) > Free)
        => /\ ~ last'.ok
           /\ last'.msg = "Insufficient balance"
           /\ last'.id = None
           /\ NoMutation ]_vars

\* C13 witness: a create has just been refused for insufficient balance.
C13_Witness ==
  last.op = "create_order" /\ ~ last.ok /\ last.msg = "Insufficient balance"

\* C14: create with a side other than BUY/SELL, a type other than
\* MARKET/LIMIT or a quantity <= 0 fails with a reason, returns no order and
\* changes no order, history entry, balance or position.
C14_InvalidRequestRejected ==
  [][ \A q \in Requests :
        (CreateOrder(q) /\ ~ WellFormed(q))
        => /\ ~ last'.ok
           /\ last'.msg \in {"Invalid side", "Invalid order type", "Invalid quantity"}
           /\ last'.id = None
           /\ NoMutation ]_vars

\* C14 witness: a create has just been refused for its side, after an order
\* was executed and opened a position.
C14_Witness ==
  /\ last.op = "create_order" /\ ~ last.ok /\ last.msg = "Invalid side"
  /\ order_history # <<>> /\ positions # <<>>

\* C15: cancelling an order that is PENDING in the open-orders map succeeds,
\* sets its status to CANCELLED, removes it from the map and appends it to
\* the history; balances, positions and the other orders stay as they were.
C15_CancelPending ==
  [][ \A id \in 1..Len(objs) :
        (last'.op = "cancel_order" /\ last'.id = id
           /\ InSeq(orders, id) /\ objs[id].status = "PENDING")
        => /\ last'.ok
           /\ objs' = [objs EXCEPT ![id].status = "CANCELLED"]
           /\ ~ InSeq(orders', id)
           /\ orders' = RemoveId(orders, id)
           /\ order_history' = Append(order_history, id)
           /\ UNCHANGED <<balances, positions, total_pnl>> ]_vars

\* C15 witness: an order has just been cancelled while a position is open.
C15_Witness ==
  /\ last.op = "cancel_order" /\ last.ok
  /\ objs[last.id].status = "CANCELLED"
  /\ positions # <<>>

\* C16: cancel with an id that is not in the open-orders map (an unknown id,
\* or an order already FILLED or CANCELLED) fails with the not-found reason
\* and changes no order, history entry, balance or position.
C16_CancelNotFound ==
  [][ (last'.op = "cancel_order" /\ ~ InSeq(orders, last'.id))
      => /\ ~ last'.ok
         /\ last'.msg = "Order not found"
         /\ NoMutation ]_vars

\* C16 witness: a cancel has just been refused for an order that is in the
\* history.
C16_Witness ==
  /\ last.op = "cancel_order" /\ ~ last.ok
  /\ InSeq(order_history, last.id)

\* C17: when process_candle returns, every MARKET order of the symbol that
\* was in the open-orders map has been executed at the candle's close plus
\* (BUY) or minus (SELL) slippage and moved to the history, and no MARKET
\* order of the symbol is left in the map.
C17_PendingMarketExecuted ==
  [][ last'.op = "process_candle" =>
        /\ \A id \in 1..Len(objs) :
             (InSeq(orders, id) /\ objs[id].symbol = last'.symbol
                /\ objs[id].order_type = "MARKET")
             => /\ objs'[id].status = "FILLED"
                /\ objs'[id].executed_quantity = objs[id].quantity
                /\ objs'[id].executed_price =
                     ExecutionPrice(objs[id].side, objs[id].quantity, last'.candle.close)
                /\ InSeq(order_history', id)
                /\ ~ InSeq(orders', id)
        /\ \A i \in 1..Len(orders') :
             ~ (objs'[orders'[i]].symbol = last'.symbol
                  /\ objs'[orders'[i]].order_type = "MARKET") ]_vars

\* C17 witness: a scan has executed a pending order on a candle whose high
\* differs from its close.
C17_Witness ==
  /\ Scanned
  /\ last.pendings # <<>>
  /\ last.candle.high # last.candle.close

\* C18: process_candle never fills a LIMIT order: a LIMIT order that is
\* PENDING in the open-orders map before the call is unchanged and still in
\* the map after it, whatever the candle's prices.
C18_LimitNeverFilled ==
  [][ last'.op = "process_candle" =>
        \A id \in 1..Len(objs) :
          (InSeq(orders, id) /\ objs[id].order_type = "LIMIT")
          => objs'[id] = objs[id] /\ InSeq(orders', id) ]_vars

\* C18 witness: a candle of the symbol of a pending LIMIT BUY order has been
\* processed whose low is below the order's price.
C18_Witness ==
  /\ Scanned
  /\ \E i \in 1..Len(orders) :
       LET o == objs[orders[i]]
       IN  /\ o.order_type = "LIMIT" /\ o.symbol = last.symbol /\ o.side = "BUY"
           /\ last.candle.low < o.price

\* the candles of a symbol from minute a to minute b breach the TP or SL of p
Breached(p, a, b) ==
  \E u \in a..b :
     TriggersOf(p, KlineAt(p.symbol, u).high, KlineAt(p.symbol, u).low) # <<>>

\* C19: every advance of the clock runs the candle scan once per elapsed bar,
\* so a position whose TP or SL is breached by a candle of an elapsed minute
\* is no longer open when the advance completes.
C19_AdvanceClosesBreached ==
  [][ (\E steps \in Steps : ApiAdvanceTime(steps)) =>
        \A i \in 1..Len(positions) :
          Breached(positions[i], time_manager._current_time + 1,
                   time_manager'._current_time)
          => PosKey(positions[i]) \notin PosKeys(positions') ]_vars

\* C20: when an order posted with immediate simulation is FILLED and a
\* forthcoming candle breaches the TP or SL of the resulting position, a
\* closing order has been executed when the request returns: no position
\* whose TP or SL a forthcoming candle breaches is open under the order's key.
C20_ImmediateClosesBreached ==
  (last.op = "api_create_order" /\ last.immediate /\ last.ok
     /\ objs[last.id].status = "FILLED")
  => ~ \E i \in 1..Len(positions) :
         /\ PosKey(positions[i]) = KeyOf(objs[last.id].symbol, objs[last.id].position_side)
         /\ Breached(positions[i], last.old_time + 1, LastKline)

\* the position the order of id holds its slot key of, before the step
SlotOf(id) == PosIndex(positions, KeyOf(objs[id].symbol, objs[id].position_side))

\* the step is an execution of order id at a market price that deletes the
\* position of the order's slot
ClosingFill(id) ==
  /\ last'.op = "execute_market_order" /\ last'.id = id
  /\ SlotOf(id) # 0
  /\ PosKey(positions[SlotOf(id)]) \notin PosKeys(positions')

\* C21: when a fill brings a position's quantity to <= 0, the realized PnL
\* added to the engine-wide total is (exit_price - entry_price) times the
\* quantity the position held before the fill for a LONG position, and the
\* negation of that for a SHORT position.
C21_RealizedPnlOfClosedQuantity ==
  [][ \A id \in 1..Len(objs) :
        ClosingFill(id) =>
          LET position == positions[SlotOf(id)]
              pnl == (objs'[id].executed_price - position.entry_price) * position.quantity
          IN  total_pnl' - total_pnl = IF position.side = "SHORT" THEN 0 - pnl ELSE pnl ]_vars

\* C22: execute_market_order fills a BUY order at market_price + slippage and
\* a SELL order at market_price - slippage, with slippage =
\* slippage percentage of (quantity * market_price) times market_price; a BUY
\* never fills below and a SELL never above the (positive) market price.
C22_FillPriceBySide ==
  Executed =>
    LET order == objs[last.id]
        market_price == last.price
        slippage == (market_price * get_slippage(order.quantity * market_price)) \div RATE_DEN
    IN  /\ order.side = "BUY" => /\ order.executed_price = market_price + slippage
                                 /\ order.executed_price >= market_price
        /\ order.side = "SELL" => /\ order.executed_price = market_price - slippage
                                  /\ order.executed_price <= market_price

\* C22 witness: a SELL order has been executed below a positive market price.
C22_Witness ==
  /\ Executed
  /\ last.price > 0
  /\ objs[last.id].side = "SELL"
  /\ objs[last.id].executed_price < last.price

\* C23: after a successful execute_market_order of a PENDING order of the
\* open-orders map, the order has executed_price = the slippage-adjusted
\* price, executed_quantity = its quantity, commission =
\* commission(executed_quantity * executed_price) and status FILLED; it is
\* in the history list and no longer in the open-orders map.
C23_FilledOrderFields ==
  [][ \A id \in 1..Len(objs) :
        (last'.op = "execute_market_order" /\ last'.id = id
           /\ objs[id].status = "PENDING" /\ InSeq(orders, id))
        => LET order == objs'[id]
               slippage == (last'.price * get_slippage(objs[id].quantity * last'.price))
                             \div RATE_DEN
           IN  /\ order.executed_price = IF objs[id].side = "BUY"
                                         THEN last'.price + slippage
                                         ELSE last'.price - slippage
               /\ order.executed_quantity = objs[id].quantity
               /\ order.commission =
                    Max(((order.executed_quantity * order.executed_price) \div RATE_DEN)
                          * COMMISSION_RATE_NUM, MIN_COMMISSION)
               /\ order.status = "FILLED"
               /\ InSeq(order_history', id)
               /\ ~ InSeq(orders', id) ]_vars

\* C23 witness: an order that was never executed before (it is in the
\* history once) has been executed while another order is still open.
C23_Witness ==
  /\ Executed
  /\ Cardinality({i \in 1..Len(order_history) : order_history[i] = last.id}) = 1
  /\ objs[last.id].status = "FILLED"
  /\ orders # <<>>

\* the account has made one order, a MARKET BUY of 100 units at the default
\* leverage, and executed it once, at a market price of 1.00
FirstBuyAtOne ==
  /\ Executed
  /\ last.price = USDT(1)
  /\ Len(objs) = 1 /\ Len(order_history) = 1
  /\ objs[1].side = "BUY" /\ objs[1].quantity = 100
  /\ objs[1].leverage = DEFAULT_LEVERAGE

\* C24: from a free balance of 1000 USDT with leverage 10, creating and
\* executing a MARKET BUY of 100 units at market price 1.00 reserves margin
\* 10, charges commission 0.07 and leaves free = 989.93, with total = free +
\* locked.
C24_ScenarioFreeBalance ==
  FirstBuyAtOne =>
    /\ Len(positions) = 1
    /\ positions[1].margin = USDT(10)
    /\ objs[1].commission = 70000
    /\ Free = 989930000
    /\ balances["USDT"].total = Free + balances["USDT"].locked

\* C24, as the program computes it: the order of that scenario fills at
\* 1.0005 (slippage 0.05% of the market price 1.00), which reserves margin
\* 10.005, charges commission 0.070035 and leaves free = 989.924965, with
\* total = free + locked.
C24_ScenarioWithSlippage ==
  FirstBuyAtOne =>
    /\ objs[1].executed_price = 1000500
    /\ Len(positions) = 1
    /\ positions[1].margin = 10005000
    /\ objs[1].commission = 70035
    /\ Free = 989924965
    /\ balances["USDT"].total = Free + balances["USDT"].locked

\* C24 witness: the order of the scenario has been created and executed at
\* the market price 1.00, and its position is open.
C24_Witness ==
  /\ FirstBuyAtOne
  /\ objs[1].status = "FILLED"
  /\ positions # <<>>

\* the percentage (in 1/RATE_DEN) the default table gives a volume in cents
TierOf(v) ==
  IF v >= 10000 * Cent THEN 20
  ELSE IF v >= 1000 * Cent THEN 10
  ELSE IF v >= 100 * Cent THEN 5
  ELSE 1

\* C25: the slippage percentage of an order value v is the percentage of the
\* highest configured threshold that is <= v (v = 5000 selects 0.1%); below
\* every threshold the lowest threshold's percentage is used; the selected
\* percentage is non-decreasing in v.
C25_SlippageTier ==
  calc.op = "get_slippage" =>
    /\ calc.result = TierOf(calc.value)
    /\ calc.value = 5000 * Cent => calc.result = 10
    /\ calc.value < 0 => calc.result = SLIPPAGE_CONFIG[0]
    /\ calc.value <= calc.other => calc.result <= calc.other_result

\* C25 witness: get_slippage has been called for the order value 5000 and
\* for one above the highest threshold.
C25_Witness ==
  /\ calc.op = "get_slippage"
  /\ calc.value = 5000 * Cent
  /\ calc.other > 10000 * Cent
  /\ calc.result < calc.other_result

\* C26: for every order value, 0 and negative values included,
\* calculate_commission returns max(order_value * rate, min_commission),
\* which is never below min_commission; every FILLED order carries a
\* commission >= min_commission.
C26_CommissionFloor ==
  /\ calc.op = "calculate_commission" =>
        /\ calc.result = IF calc.value * COMMISSION_RATE_NUM >= MIN_COMMISSION * RATE_DEN
                          THEN (calc.value * COMMISSION_RATE_NUM) \div RATE_DEN
                          ELSE MIN_COMMISSION
        /\ calc.result >= MIN_COMMISSION
  /\ \A id \in 1..Len(objs) :
        objs[id].status = "FILLED" => objs[id].commission >= MIN_COMMISSION

\* C26 witness: calculate_commission has been called for a negative order
\* value, and an order whose value times the rate is below the minimum has
\* been filled.
C26_Witness ==
  /\ calc.op = "calculate_commission"
  /\ calc.value < 0
  /\ \E id \in 1..Len(objs) :
        /\ objs[id].status = "FILLED"
        /\ (objs[id].executed_quantity * objs[id].executed_price) * COMMISSION_RATE_NUM
             < MIN_COMMISSION * RATE_DEN

\* the position the book holds under a key, <<>> when it holds none
Held(ps, key) == IF PosIndex(ps, key) = 0 THEN <<>> ELSE <<ps[PosIndex(ps, key)]>>

Serial(base, tm, rq1, rq2) ==
  LET r1 == api_create_order(base.e, tm, base.files, rq1, LastKline)
      r2 == api_create_order(r1.e, tm, r1.files, rq2, LastKline)
  IN  [e |-> r2.e, files |-> r2.files]

\* C28: two order requests the server handles at the same time never
\* interleave their updates of the free balance and the position book: no
\* handler is suspended part-way while another runs, and once both have
\* returned the state is the one produced by running the two one after the
\* other in some order.
C28_ExecutionsSerialized ==
  /\ \A i \in 1..Len(inflight.handlers) : inflight.handlers[i].pc \in {"start", "done"}
  /\ Returned =>
        LET base == inflight.base[1]
            rq1 == inflight.handlers[1].rq
            rq2 == inflight.handlers[2].rq
        IN  [e |-> Engine, files |-> saved]
              \in {Serial(base, time_manager, rq1, rq2),
                   Serial(base, time_manager, rq2, rq1)}

\* C28 witness: two market orders that arrived together have both been
\* executed, each debiting the free balance.
C28_Witness ==
  /\ Returned
  /\ \A i \in 1..2 :
        /\ inflight.handlers[i].code = 0
        /\ objs[inflight.handlers[i].id].status = "FILLED"
  /\ Free < inflight.base[1].e.balances["USDT"].free

\* a closing order of the scan was refused by create_order
ClosingFailed == \E n \in 1..Len(last.closings) : last.closings[n] = 0

\* C29: inside one process_candle call, when the closing order of one
\* triggered position fails, the scan still goes through every remaining
\* triggered position and executes every pending MARKET order of the symbol.
C29_ScanContinuesAfterFailure ==
  (Scanned /\ ClosingFailed) =>
    /\ Len(last.closings) = Len(last.triggers)
    /\ \A n \in 1..Len(last.closings) :
          last.closings[n] # 0 =>
            /\ objs[last.closings[n]].status = "FILLED"
            /\ InSeq(order_history, last.closings[n])
    /\ \A id \in Pendings : objs[id].status = "FILLED"
    /\ \A i \in 1..Len(orders) :
          ~ (objs[orders[i]].symbol = last.symbol
               /\ objs[orders[i]].order_type = "MARKET")

\* C29 witness: a scan in which a closing order failed has executed a
\* pending MARKET order of the symbol.
C29_Witness ==
  /\ Scanned /\ ClosingFailed
  /\ last.pendings # <<>>
  /\ \A id \in Pendings : InSeq(order_history, id)

\* C30: an execution in an empty (symbol, direction) slot creates a position
\* with quantity = fill quantity, entry_price = current_price = fill price,
\* unrealized_pnl = 0, take-profit and stop-loss copied from the order,
\* margin = quantity * price / leverage of the order, and leverage = the
\* order's leverage, so that margin * leverage = quantity * entry_price.
C30_OpenedPositionFields ==
  [][ \A id \in 1..Len(objs) :
        (last'.op = "execute_market_order" /\ last'.id = id /\ SlotOf(id) = 0)
        => LET order == objs'[id]
               opened == Held(positions', KeyOf(order.symbol, order.position_side))
               position == opened[1]
           IN  /\ opened # <<>>
               /\ position.quantity = order.executed_quantity
               /\ position.entry_price = order.executed_price
               /\ position.current_price = order.executed_price
               /\ position.unrealized_pnl = 0
               /\ position.take_profit_price = order.take_profit_price
               /\ position.stop_loss_price = order.stop_loss_price
               /\ position.margin
                    = (order.executed_quantity * order.executed_price) \div order.leverage
               /\ position.leverage = order.leverage
               /\ position.margin * position.leverage
                    = position.quantity * position.entry_price ]_vars

\* the step is an execution of order id at a market price that reduces the
\* position of the order's slot and leaves it a quantity > 0
PartialFill(id) ==
  /\ last'.op = "execute_market_order" /\ last'.id = id
  /\ SlotOf(id) # 0
  /\ positions[SlotOf(id)].quantity - objs[id].quantity > 0

\* C31: a reducing fill that leaves a position's quantity > 0 keeps the
\* position in the book with its entry_price, margin and realized_pnl
\* unchanged, leaves the engine-wide total PnL unchanged, and releases no
\* margin back to free (free only pays the fill's margin and commission).
C31_PartialReduceKeepsBasis ==
  [][ \A id \in 1..Len(objs) :
        PartialFill(id) =>
          LET before == positions[SlotOf(id)]
              kept == Held(positions', PosKey(before))
              order == objs'[id]
              order_value == order.executed_quantity * order.executed_price
          IN  /\ kept # <<>>
              /\ kept[1].quantity = before.quantity - order.executed_quantity
              /\ kept[1].entry_price = before.entry_price
              /\ kept[1].margin = before.margin
              /\ kept[1].realized_pnl = before.realized_pnl
              /\ total_pnl' = total_pnl
              /\ balances'["USDT"].free
                   = (Free - (order_value \div order.leverage)) - order.commission ]_vars

\* C31 witness: the order executed last found a position in its slot (the
\* position's margin is not the one this fill would have opened it with)
\* and has left it open with a quantity > 0.
C31_Witness ==
  /\ Executed
  /\ \E i \in 1..Len(positions) :
        /\ PosKey(positions[i]) = KeyOf(objs[last.id].symbol, objs[last.id].position_side)
        /\ positions[i].quantity > 0
        /\ positions[i].margin
             # (objs[last.id].executed_quantity * objs[last.id].executed_price)
                 \div objs[last.id].leverage

\* C32: update_position_prices(symbol, price) sets, for every position of
\* the symbol, current_price = price and unrealized_pnl = (price -
\* entry_price) * quantity for LONG, (entry_price - price) * quantity for
\* SHORT, and leaves the positions of other symbols, all quantities, entry
\* prices and margins, the balances and the orders unchanged.
C32_MarkSetsPriceAndPnl ==
  [][ last'.op = "update_position_prices" =>
        /\ Len(positions') = Len(positions)
        /\ \A i \in 1..Len(positions) :
              LET p == positions[i]
                  q == positions'[i]
              IN  IF p.symbol = last'.symbol
                  THEN /\ q.current_price = last'.price
                       /\ q.unrealized_pnl =
                            IF p.side = "LONG"
                            THEN (last'.price - p.entry_price) * p.quantity
                            ELSE (p.entry_price - last'.price) * p.quantity
                       /\ q = [p EXCEPT !.current_price = q.current_price,
                                        !.unrealized_pnl = q.unrealized_pnl]
                  ELSE q = p
        /\ UNCHANGED <<balances, total_pnl, orders, order_history, objs>> ]_vars

\* C32 witness: a SHORT position has been marked at a price other than its
\* entry price while a position of the other symbol is open.
C32_Witness ==
  /\ last.op = "update_position_prices"
  /\ \E i, j \in 1..Len(positions) :
        /\ positions[i].symbol = last.symbol /\ positions[i].side = "SHORT"
        /\ positions[i].unrealized_pnl # 0
        /\ positions[j].symbol # last.symbol

\* the candle meets the take-profit / the stop-loss of a position
MeetsTp(p, k) ==
  /\ p.take_profit_price # None
  /\ \/ p.side = "LONG" /\ k.high >= p.take_profit_price
     \/ p.side = "SHORT" /\ k.low <= p.take_profit_price
MeetsSl(p, k) ==
  /\ p.stop_loss_price # None
  /\ \/ p.side = "LONG" /\ k.low <= p.stop_loss_price
     \/ p.side = "SHORT" /\ k.high >= p.stop_loss_price

\* C33: the list _check_tp_sl_improved returns holds an entry (position, TP,
\* take_profit_price) exactly when the position is of the symbol, has a
\* take-profit and the candle meets it, and an entry (position, SL,
\* stop_loss_price) exactly when it has a stop-loss and the candle meets it;
\* the two checks are independent, positions of other symbols never appear,
\* and the call changes nothing.
C33_TriggerList ==
  [][ last'.op = "_check_tp_sl_improved" =>
        LET entries == {last'.triggers[n] : n \in 1..Len(last'.triggers)}
            k == last'.candle
        IN  /\ \A i \in 1..Len(positions) :
                  LET p == positions[i]
                  IN  /\ [key |-> PosKey(p), kind |-> "TP", price |-> p.take_profit_price]
                           \in entries
                         <=> (p.symbol = last'.symbol /\ MeetsTp(p, k))
                      /\ [key |-> PosKey(p), kind |-> "SL", price |-> p.stop_loss_price]
                           \in entries
                         <=> (p.symbol = last'.symbol /\ MeetsSl(p, k))
            /\ \A t \in entries :
                  /\ t.key[1] = last'.symbol
                  /\ t.key \in PosKeys(positions)
                  /\ t.kind \in {"TP", "SL"}
            /\ Cardinality(entries) = Len(last'.triggers)
            /\ NoMutation ]_vars

\* C33 witness: the list returned for a candle holds both the TP and the SL
\* entry of one position while a position of the other symbol is open.
C33_Witness ==
  /\ last.op = "_check_tp_sl_improved"
  /\ \E m, n \in 1..Len(last.triggers) :
        /\ last.triggers[m].key = last.triggers[n].key
        /\ last.triggers[m].kind = "TP" /\ last.triggers[n].kind = "SL"
  /\ \E j \in 1..Len(positions) : positions[j].symbol # last.symbol

\* C34: saving all state and loading it into a freshly initialised engine
\* reproduces the snapshot: balances, positions, open orders, order history
\* in order, total realized PnL and clock time are the saved ones, and every
\* order has the saved status, side, type, quantity, leverage, TP/SL and
\* executed_time (none for an order never executed).
C34_SaveLoadRoundTrip ==
  [][ last'.op = "restart"
      => /\ balances' = balances
         /\ positions' = positions
         /\ total_pnl' = total_pnl
         /\ time_manager'._current_time = time_manager._current_time
         /\ orders' = orders
         /\ order_history' = order_history
         /\ \A id \in 1..Len(objs) :
              /\ objs'[id].status = objs[id].status
              /\ objs'[id].side = objs[id].side
              /\ objs'[id].order_type = objs[id].order_type
              /\ objs'[id].quantity = objs[id].quantity
              /\ objs'[id].take_profit_price = objs[id].take_profit_price
              /\ objs'[id].stop_loss_price = objs[id].stop_loss_price
              /\ objs'[id].leverage = objs[id].leverage
              /\ objs'[id].executed_time = objs[id].executed_time ]_vars

\* the commissions of the orders whose status is FILLED
RECURSIVE FilledCommission(_)
FilledCommission(os) ==
  IF os = <<>> THEN 0
  ELSE (IF Head(os).status = "FILLED" THEN Head(os).commission ELSE 0)
         + FilledCommission(Tail(os))

\* C35: accounting identity: in every reachable state the free USDT balance
\* plus the margins of the open positions equals the initial balance minus
\* the commissions of the FILLED orders plus the total realized PnL.
C35_AccountingIdentity ==
  Free + SumMargin(positions)
    = (DEFAULT_BALANCE - FilledCommission(objs)) + total_pnl

\* C36: the free USDT balance is never negative, whatever sequence of
\* accepted creations, market executions and candle scans has run.
C36_FreeNeverNegative == Free >= 0

\* C37: a closing order of the TP/SL scan never opens exposure: the
\* (symbol, direction) keys of the position book after the TP/SL step of a
\* candle scan are among the keys before the scan.
C37_ClosingOpensNothing ==
  [][ last'.op = "process_candle" => last'.mid_keys \subseteq PosKeys(positions) ]_vars

\* C38: each order is executed at most once: execute_market_order on an
\* order that is already FILLED or CANCELLED changes no balance and no
\* position and appends nothing to the history, and no order id is twice in
\* the history list.
C38_ExecutedAtMostOnce ==
  [][ /\ (last'.op = "execute_market_order"
            /\ objs[last'.id].status \in {"FILLED", "CANCELLED"})
         => /\ balances' = balances
            /\ positions' = positions
            /\ order_history' = order_history
      /\ \A i, j \in 1..Len(order_history') :
           i # j => order_history'[i] # order_history'[j] ]_vars

\* C39: in every reachable state the unrealized PnL of every position in the
\* book is consistent with its current price, entry price and quantity:
\* (current_price - entry_price) * quantity for LONG and
\* (entry_price - current_price) * quantity for SHORT.
C39_UnrealizedConsistent ==
  \A i \in 1..Len(positions) :
     LET p == positions[i]
     IN  p.unrealized_pnl =
           IF p.side = "LONG" THEN (p.current_price - p.entry_price) * p.quantity
           ELSE (p.entry_price - p.current_price) * p.quantity

\* C40: a candle scan for symbol S leaves every position of another symbol
\* (all its fields) and every open order of another symbol unchanged.
C40_OtherSymbolsUntouched ==
  [][ last'.op = "process_candle" =>
        LET OtherPosition(p) == p.symbol # last'.symbol
            OtherBefore(id) == objs[id].symbol # last'.symbol
            OtherAfter(id) == objs'[id].symbol # last'.symbol
        IN  /\ SelectSeq(positions', OtherPosition) = SelectSeq(positions, OtherPosition)
            /\ SelectSeq(orders', OtherAfter) = SelectSeq(orders, OtherBefore)
            /\ \A n \in 1..Len(orders) :
                 OtherBefore(orders[n]) => objs'[orders[n]] = objs[orders[n]] ]_vars

\* C40 witness: a candle of another symbol has been scanned whose high and
\* low reach the take-profit and the stop-loss of an open ADA-USDT position,
\* while a MARKET order of ADA-USDT is pending.
C40_Witness ==
  /\ last.op = "process_candle"
  /\ last.symbol = "BTC-USDT"
  /\ \E i \in 1..Len(positions) :
        /\ positions[i].symbol = "ADA-USDT"
        /\ positions[i].side = "LONG"
        /\ positions[i].take_profit_price # None
        /\ last.candle.high >= positions[i].take_profit_price
        /\ positions[i].stop_loss_price # None
        /\ last.candle.low <= positions[i].stop_loss_price
        /\ positions[i].current_price # last.candle.close
  /\ \E n \in 1..Len(orders) :
        /\ objs[orders[n]].symbol = "ADA-USDT"
        /\ objs[orders[n]].order_type = "MARKET"
        /\ objs[orders[n]].status = "PENDING"

====
